---- MODULE Spec2Model ----
(***************************************************************************)
(* Model of NuXLModificationsGenerator (OpenMS): the generator of          *)
(* nucleotide precursor adducts, initModificationMassesNA, and its         *)
(* helpers notInSeq and generateTargetSequences.                           *)
(*                                                                         *)
(* A String is a sequence of one-character strings, so that indexing,      *)
(* sorting, searching and lexicographic order are what the code does.      *)
(***************************************************************************)
EXTENDS Integers, Sequences, FiniteSets, TLC

\* ------------------------------------------------------------------------
\* Characters and strings (std::string, OpenMS::String)
\* ------------------------------------------------------------------------

\* The ASCII code of every character the model uses.
Ascii ==
  [c \in {"#", "+", "-", "0", "1", "2", "3", "4", "5", "6", "7", "8", "9",
          ":", "=", ">", "A", "C", "H", "O", "S", "U", "d"} |->
     CASE c = "#" -> 35 [] c = "+" -> 43 [] c = "-" -> 45
       [] c = "0" -> 48 [] c = "1" -> 49 [] c = "2" -> 50 [] c = "3" -> 51
       [] c = "4" -> 52 [] c = "5" -> 53 [] c = "6" -> 54 [] c = "7" -> 55
       [] c = "8" -> 56 [] c = "9" -> 57 [] c = ":" -> 58 [] c = "=" -> 61
       [] c = ">" -> 62 [] c = "A" -> 65 [] c = "C" -> 67 [] c = "H" -> 72
       [] c = "O" -> 79 [] c = "S" -> 83 [] c = "U" -> 85 [] c = "d" -> 100]

\* islower(c)
IsLower(c) == Ascii[c] >= 97 /\ Ascii[c] <= 122

IsDigit(c) == Ascii[c] >= 48 /\ Ascii[c] <= 57

\* operator< of std::string: lexicographic on the character codes.
StrLess(a, b) ==
  LET n == IF Len(a) < Len(b) THEN Len(a) ELSE Len(b)
      D == {i \in 1..n : a[i] # b[i]}
  IN  IF D = {} THEN Len(a) < Len(b)
      ELSE LET i == CHOOSE k \in D : \A j \in D : k <= j
           IN  Ascii[a[i]] < Ascii[b[i]]

\* The elements of a std::set<String> (or the keys of a std::map<String, ..>)
\* in iteration order.
SortStrings(S) ==
  LET ranked == {<<Cardinality({y \in S : StrLess(y, x)}), x>> : x \in S}
  IN  <<>> \o [i \in 1..Cardinality(S) |-> (CHOOSE p \in ranked : p[1] = i - 1)[2]]

\* std::sort over the characters of a string.
RECURSIVE SortChars(_)
SortChars(s) ==
  IF s = <<>> THEN <<>>
  ELSE LET i == CHOOSE k \in 1..Len(s) : \A j \in 1..Len(s) : Ascii[s[k]] <= Ascii[s[j]]
       IN  <<s[i]>> \o SortChars(SubSeq(s, 1, i - 1) \o SubSeq(s, i + 1, Len(s)))

\* String::find(char): the first index (1-based) of c in s, 0 for npos.
FindChar(s, c) ==
  LET P == {i \in 1..Len(s) : s[i] = c}
  IN  IF P = {} THEN 0 ELSE CHOOSE i \in P : \A j \in P : i <= j

\* String::substitute(char from, char to): every occurrence replaced.
SubstituteChar(s, from, to) == [i \in 1..Len(s) |-> IF s[i] = from THEN to ELSE s[i]]

\* String::substitute("-", "#-") and ("+", "#+"): a '#' put before every
\* occurrence of the sign.
RECURSIVE MarkSign(_, _)
MarkSign(s, sign) ==
  IF s = <<>> THEN <<>>
  ELSE (IF Head(s) = sign THEN <<"#", sign>> ELSE <<Head(s)>>) \o MarkSign(Tail(s), sign)

\* String::remove(char): every occurrence of c removed.
RemoveChar(s, c) == SelectSeq(s, LAMBDA x : x # c)

\* String::split(char splitter, substrings): no substring for an empty
\* string, the whole string when the splitter does not occur.
RECURSIVE SplitRec(_, _, _)
SplitRec(s, splitter, cur) ==
  IF s = <<>> THEN <<cur>>
  ELSE IF Head(s) = splitter THEN <<cur>> \o SplitRec(Tail(s), splitter, <<>>)
  ELSE SplitRec(Tail(s), splitter, Append(cur, Head(s)))

Split(s, splitter) == IF s = <<>> THEN <<>> ELSE SplitRec(s, splitter, <<>>)

\* String(SignedSize): the decimal digits of n.
Digit(d) == CASE d = 0 -> "0" [] d = 1 -> "1" [] d = 2 -> "2" [] d = 3 -> "3"
              [] d = 4 -> "4" [] d = 5 -> "5" [] d = 6 -> "6" [] d = 7 -> "7"
              [] d = 8 -> "8" [] d = 9 -> "9"

RECURSIVE NatToStr(_)
NatToStr(n) == IF n < 10 THEN <<Digit(n)>> ELSE NatToStr(n \div 10) \o <<Digit(n % 10)>>

IntToStr(n) == IF n < 0 THEN <<"-">> \o NatToStr(0 - n) ELSE NatToStr(n)

\* The value of a string of digits.
RECURSIVE StrToNat(_, _)
StrToNat(s, acc) ==
  IF s = <<>> THEN acc ELSE StrToNat(Tail(s), 10 * acc + (Ascii[Head(s)] - 48))

\* ------------------------------------------------------------------------
\* Formula algebra (EmpiricalFormula): element counts, +, -, toString,
\* getMonoWeight
\* ------------------------------------------------------------------------

\* The element symbols of the model, in the order toString renders them.
ElementOrder == <<"C", "H", "O", "S">>

Elements == {ElementOrder[i] : i \in 1..Len(ElementOrder)}

EmptyFormula == [e \in Elements |-> 0]

\* EmpiricalFormula(String): element symbols, each followed by an optional count.
RECURSIVE ParseFormulaRec(_, _)
ParseFormulaRec(s, f) ==
  IF s = <<>> THEN f
  ELSE LET e == Head(s)
           rest == Tail(s)
           nd == IF \E i \in 1..Len(rest) : ~IsDigit(rest[i])
                 THEN (CHOOSE i \in 1..Len(rest) :
                         ~IsDigit(rest[i]) /\ \A j \in 1..(i - 1) : IsDigit(rest[j])) - 1
                 ELSE Len(rest)
           cnt == IF nd = 0 THEN 1 ELSE StrToNat(SubSeq(rest, 1, nd), 0)
       IN  ParseFormulaRec(SubSeq(rest, nd + 1, Len(rest)), [f EXCEPT ![e] = @ + cnt])

ParseFormula(s) == ParseFormulaRec(s, EmptyFormula)

FormulaAdd(f, g) == [e \in Elements |-> f[e] + g[e]]

FormulaSub(f, g) == [e \in Elements |-> f[e] - g[e]]

\* EmpiricalFormula::toString: the elements with a count other than zero in
\* symbol order, each with its count ("H2O1").
RECURSIVE ToStringRec(_, _)
ToStringRec(f, i) ==
  IF i > Len(ElementOrder) THEN <<>>
  ELSE (IF f[ElementOrder[i]] = 0 THEN <<>>
        ELSE <<ElementOrder[i]>> \o IntToStr(f[ElementOrder[i]])) \o ToStringRec(f, i + 1)

FormulaToString(f) == ToStringRec(f, 1)

\* EmpiricalFormula::getMonoWeight, in thousandths of a dalton.
MonoWeight(f) == 12000 * f["C"] + 1008 * f["H"] + 15995 * f["O"] + 31972 * f["S"]

Water == ParseFormula(<<"H", "2", "O">>)


\* ------------------------------------------------------------------------
\* Containers
\* ------------------------------------------------------------------------

\* std::map: a function on its key set. operator[] on an absent key yields
\* the default value (and creates the entry).
EmptyMap == [k \in {} |-> {}]

MapGet(m, k, default) == IF k \in DOMAIN m THEN m[k] ELSE default

MapPut(m, k, v) == (k :> v) @@ m

MapErase(m, k) == [x \in (DOMAIN m) \ {k} |-> m[x]]

\* The keys of a std::map<char, ..> in iteration order.
RECURSIVE SortCharSet(_)
SortCharSet(S) ==
  IF S = {} THEN <<>>
  ELSE LET m == CHOOSE x \in S : \A y \in S : Ascii[x] <= Ascii[y]
       IN  <<m>> \o SortCharSet(S \ {m})

\* The concatenation of ss[lo], .., ss[hi].
RECURSIVE ConcatRange(_, _, _)
ConcatRange(ss, lo, hi) ==
  IF lo > hi THEN <<>>
  ELSE IF lo = hi THEN ss[lo]
  ELSE LET mid == (lo + hi) \div 2
       IN  ConcatRange(ss, lo, mid) \o ConcatRange(ss, mid + 1, hi)

Concat(ss) == ConcatRange(ss, 1, Len(ss))

\* ------------------------------------------------------------------------
\* notInSeq
\* ------------------------------------------------------------------------

\* notInSeq that takes every query to be in the empty sequence.
notInSeq_EmptyHoldsAll(res_seq, query) ==
  IF query = <<>> \/ res_seq = <<>> THEN FALSE
  ELSE ~ \E l \in 0..(Len(res_seq) - Len(query)) :
           SortChars(SubSeq(res_seq, l + 1, l + Len(query))) = SortChars(query)

\* TRUE unless some window of res_seq of the length of query is an anagram
\* of query; an empty query is in every sequence.
notInSeq(res_seq, query) ==
  IF query = <<>> THEN FALSE
  ELSE ~ \E l \in 0..(Len(res_seq) - Len(query)) :
           SortChars(SubSeq(res_seq, l + 1, l + Len(query))) = SortChars(query)

\* ------------------------------------------------------------------------
\* generateTargetSequences
\* ------------------------------------------------------------------------

\* The final check of a call: one count for every position whose symbol is
\* no source, and one for every entry of the target list of a source symbol
\* that equals the symbol; the string is appended when the count is its
\* length.
RECURSIVE ValidCountFrom(_, _, _)
ValidCountFrom(res_seq, pos, map_source2target) ==
  IF pos > Len(res_seq) THEN 0
  ELSE (IF res_seq[pos] \notin DOMAIN map_source2target THEN 1
        ELSE LET targets == map_source2target[res_seq[pos]]
             IN  Cardinality({i \in 1..Len(targets) : res_seq[pos] = targets[i]}))
       + ValidCountFrom(res_seq, pos + 1, map_source2target)

ValidCount(res_seq, map_source2target) == ValidCountFrom(res_seq, 1, map_source2target)

RECURSIVE generateTargetSequences(_, _, _)
RECURSIVE GTSPositions(_, _, _)
RECURSIVE GTSPositions_StopsAtSource(_, _, _)
RECURSIVE GTSTargets(_, _, _, _)

\* The strings the call appends to target_sequences, in order (param_pos
\* counts from 0, as in the code).
generateTargetSequences(res_seq, param_pos, map_source2target) ==
  GTSPositions(res_seq, param_pos, map_source2target)
  \o (IF ValidCount(res_seq, map_source2target) = Len(res_seq) THEN <<res_seq>> ELSE <<>>)

\* GTSPositions that leaves the loop after the first source symbol.
GTSPositions_StopsAtSource(res_seq, param_pos, map_source2target) ==
  IF param_pos >= Len(res_seq) THEN <<>>
  ELSE IF res_seq[param_pos + 1] \notin DOMAIN map_source2target
  THEN GTSPositions_StopsAtSource(res_seq, param_pos + 1, map_source2target)
  ELSE GTSTargets(res_seq, param_pos, map_source2target, 1)

\* The while loop over the positions from param_pos on.
GTSPositions(res_seq, param_pos, map_source2target) ==
  IF param_pos >= Len(res_seq) THEN <<>>
  ELSE (IF res_seq[param_pos + 1] \notin DOMAIN map_source2target THEN <<>>
        ELSE GTSTargets(res_seq, param_pos, map_source2target, 1))
       \o GTSPositions(res_seq, param_pos + 1, map_source2target)

\* The for loop over the targets of the symbol at param_pos, from the i-th on.
GTSTargets(res_seq, param_pos, map_source2target, i) ==
  LET targets == map_source2target[res_seq[param_pos + 1]]
  IN  IF i > Len(targets) THEN <<>>
      ELSE (IF res_seq[param_pos + 1] # targets[i]
            THEN generateTargetSequences([res_seq EXCEPT ![param_pos + 1] = targets[i]],
                                         param_pos + 1, map_source2target)
            ELSE <<>>)
           \o GTSTargets(res_seq, param_pos, map_source2target, i + 1)

\* ------------------------------------------------------------------------
\* initModificationMassesNA: reading the configuration
\* ------------------------------------------------------------------------

\* s.split(splitter, fields) for the splitters "=" and "->": the text before
\* the first occurrence and the text after it.
FieldBefore(s, at) == SubSeq(s, 1, at - 1)

FieldAfter(s, at, width) == SubSeq(s, at + width, Len(s))

\* "U=C10H14N5O7P": map_target_to_formula[fields[0]] = EmpiricalFormula(fields[1]).
RECURSIVE ParseTargets(_, _)
ParseTargets(target_nucleotides, map) ==
  IF target_nucleotides = <<>> THEN map
  ELSE LET s == Head(target_nucleotides)
           at == FindChar(s, "=")
       IN  ParseTargets(Tail(target_nucleotides),
                        MapPut(map, FieldBefore(s, at), ParseFormula(FieldAfter(s, at, 1))))

\* The position of "->" in a mapping string.
ArrowAt(s) == CHOOSE i \in 1..(Len(s) - 1) :
                /\ s[i] = "-" /\ s[i + 1] = ">"
                /\ \A j \in 1..(i - 1) : ~(s[j] = "-" /\ s[j + 1] = ">")

\* "A->X": map_source_to_targets[fields[0][0]].push_back(fields[1][0]).
RECURSIVE ParseMappings(_, _)
ParseMappings(mappings, map) ==
  IF mappings = <<>> THEN map
  ELSE LET s == Head(mappings)
           source == FieldBefore(s, ArrowAt(s))[1]
           target == FieldAfter(s, ArrowAt(s), 2)[1]
       IN  ParseMappings(Tail(mappings),
                         MapPut(map, source, Append(MapGet(map, source, <<>>), target)))

\* The first character of every mapping string, in list order.
SourceNucleotides(mappings) == [i \in 1..Len(mappings) |-> mappings[i][1]]

\* One round of growing the combinations: every source nucleotide put before
\* every combination of the round before.
GrowCombinations(source_nucleotides, actual_combinations) ==
  Concat([n \in 1..Len(source_nucleotides) |->
            [c \in 1..Len(actual_combinations) |->
               <<source_nucleotides[n]>> \o actual_combinations[c]]])

RECURSIVE AllCombinations(_, _, _, _, _)
AllCombinations(source_nucleotides, actual_combinations, all_combinations, i, max_length) ==
  IF i > max_length - 1 THEN all_combinations
  ELSE LET new_combinations == GrowCombinations(source_nucleotides, actual_combinations)
       IN  AllCombinations(source_nucleotides, new_combinations,
                           all_combinations \o new_combinations, i + 1, max_length)

\* AutoRestriction that adds the single source nucleotides before the test
\* "if (sequence_restriction.empty())", to a supplied sequence too.
AutoRestriction_AddsSources(sequence_restriction, source_nucleotides, max_length) ==
  LET singles == [i \in 1..Len(source_nucleotides) |-> <<source_nucleotides[i]>>]
  IN  IF sequence_restriction = <<>>
      THEN Concat(AllCombinations(source_nucleotides, singles, singles, 1, max_length))
      ELSE sequence_restriction \o Concat(singles)

\* The restriction sequence after the block "if (sequence_restriction.empty())":
\* an empty one becomes the concatenation of all words of length 1..max_length
\* over the source nucleotides.
AutoRestriction(sequence_restriction, source_nucleotides, max_length) ==
  IF sequence_restriction = <<>>
  THEN LET singles == [i \in 1..Len(source_nucleotides) |-> <<source_nucleotides[i]>>]
       IN  Concat(AllCombinations(source_nucleotides, singles, singles, 1, max_length))
  ELSE sequence_restriction

\* EraseTrivialFrom that drops a rename without applying it to the
\* restriction sequence.
RECURSIVE EraseTrivialFrom_NoRename(_, _, _)
EraseTrivialFrom_NoRename(keys, map_source_to_targets, sequence_restriction) ==
  IF keys = <<>>
  THEN [map_source_to_targets |-> map_source_to_targets,
        sequence_restriction |-> sequence_restriction]
  ELSE IF Len(map_source_to_targets[Head(keys)]) = 1
  THEN EraseTrivialFrom_NoRename(Tail(keys), MapErase(map_source_to_targets, Head(keys)),
                                 sequence_restriction)
  ELSE EraseTrivialFrom_NoRename(Tail(keys), map_source_to_targets, sequence_restriction)

\* The loop that erases the trivial rules, over the sources from the i-th
\* key on: an identity rule is dropped, a rename is applied to the
\* restriction sequence and dropped, a source with several targets stays.
RECURSIVE EraseTrivialFrom(_, _, _)
EraseTrivialFrom(keys, map_source_to_targets, sequence_restriction) ==
  IF keys = <<>>
  THEN [map_source_to_targets |-> map_source_to_targets,
        sequence_restriction |-> sequence_restriction]
  ELSE LET source == Head(keys)
           targets == map_source_to_targets[source]
           first_target == targets[1]
       IN  IF Len(targets) = 1 /\ source = first_target
           THEN EraseTrivialFrom(Tail(keys), MapErase(map_source_to_targets, source),
                                 sequence_restriction)
           ELSE IF Len(targets) = 1 /\ source # first_target
           THEN EraseTrivialFrom(Tail(keys), MapErase(map_source_to_targets, source),
                                 SubstituteChar(sequence_restriction, source, first_target))
           ELSE EraseTrivialFrom(Tail(keys), map_source_to_targets, sequence_restriction)

EraseTrivial(map_source_to_targets, sequence_restriction) ==
  EraseTrivialFrom(SortCharSet(DOMAIN map_source_to_targets), map_source_to_targets,
                   sequence_restriction)

\* The warning of line 172.
WarnNoRestriction(map_source_to_targets, sequence_restriction) ==
  DOMAIN map_source_to_targets # {} /\ sequence_restriction = <<>>

\* The sub-formulas of one modification string without its "U:" prefix:
\* the string is cut before every sign, an empty piece is skipped, a leading
\* '-' makes the piece subtractive.
RECURSIVE SubFormulas(_)
SubFormulas(ems) ==
  IF ems = <<>> THEN <<>>
  ELSE LET e == Head(ems)
       IN  IF e = <<>> THEN SubFormulas(Tail(ems))
           ELSE IF e[1] = "-"
           THEN <<[formula |-> ParseFormula(RemoveChar(e, "-")), subtractive |-> TRUE]>>
                \o SubFormulas(Tail(ems))
           ELSE IF e[1] = "+"
           THEN <<[formula |-> ParseFormula(RemoveChar(e, "+")), subtractive |-> FALSE]>>
                \o SubFormulas(Tail(ems))
           ELSE <<[formula |-> ParseFormula(e), subtractive |-> FALSE]>>
                \o SubFormulas(Tail(ems))

NucleotideModification(m) ==
  SubFormulas(Split(MarkSign(MarkSign(SubSeq(m, 3, Len(m)), "-"), "+"), "#"))

\* Malformed with the test of the second character left out.
Malformed_Never(m) == FALSE

\* m[1] != ':' (m[1] of a one-character string is the terminating NUL).
Malformed(m) == Len(m) < 2 \/ m[2] # ":"

\* The loop over the modification strings: the map from the nucleotide to its
\* modifications, or the exception.
RECURSIVE ParseModifications(_, _)
ParseModifications(modifications, map) ==
  IF modifications = <<>> THEN [thrown |-> FALSE, map |-> map]
  ELSE LET m == Head(modifications)
           target_nucleotide == <<m[1]>>
       IN  IF Malformed(m) THEN [thrown |-> TRUE, map |-> map]
           ELSE ParseModifications(Tail(modifications),
                  MapPut(map, target_nucleotide,
                         Append(MapGet(map, target_nucleotide, <<>>), NucleotideModification(m))))

\* ------------------------------------------------------------------------
\* initModificationMassesNA: single nucleotides and chain extension
\* ------------------------------------------------------------------------

\* The inner loop over the sub-formulas of one modification: the
\* nucleotide-style string grows by "-" or "+" and the sub-formula's text,
\* the sum formula by the sub-formula.
RECURSIVE ApplySubFormulas(_, _, _)
ApplySubFormulas(nt, sum_formula, nt_mod) ==
  IF nt_mod = <<>> THEN [nt |-> nt, sum_formula |-> sum_formula]
  ELSE LET sf == Head(nt_mod)
           mod == FormulaToString(sf.formula)
       IN  IF sf.subtractive
           THEN ApplySubFormulas(nt \o <<"-">> \o mod, FormulaSub(sum_formula, sf.formula),
                                 Tail(nt_mod))
           ELSE ApplySubFormulas(nt \o <<"+">> \o mod, FormulaAdd(sum_formula, sf.formula),
                                 Tail(nt_mod))

\* The loop over the modifications of one nucleotide. The set
\* formulas_of_modified_nucleotide is declared and searched, and nothing is
\* ever inserted into it.
RECURSIVE SinglesOfNucleotide(_, _, _, _, _)
SinglesOfNucleotide(target_nucleotide, target_nucleotide_formula, nt_mods, formulas_of_modified_nucleotide, st) ==
  IF nt_mods = <<>> THEN st
  ELSE LET m == ApplySubFormulas(target_nucleotide, target_nucleotide_formula, Head(nt_mods))
           key == FormulaToString(m.sum_formula)
       IN  IF key \notin formulas_of_modified_nucleotide
           THEN SinglesOfNucleotide(target_nucleotide, target_nucleotide_formula, Tail(nt_mods),
                  formulas_of_modified_nucleotide,
                  [actual_combinations |-> Append(st.actual_combinations, m.sum_formula),
                   mod_combinations |->
                     MapPut(st.mod_combinations, key,
                            MapGet(st.mod_combinations, key, {}) \cup {m.nt})])
           ELSE SinglesOfNucleotide(target_nucleotide, target_nucleotide_formula, Tail(nt_mods),
                  formulas_of_modified_nucleotide, st)

\* The loop over the nucleotides, in the key order of map_target_to_formula.
RECURSIVE SinglesFrom(_, _, _, _)
SinglesFrom(keys, map_target_to_formula, map_to_nucleotide_modifications, st) ==
  IF keys = <<>> THEN st
  ELSE SinglesFrom(Tail(keys), map_target_to_formula, map_to_nucleotide_modifications,
         SinglesOfNucleotide(Head(keys), map_target_to_formula[Head(keys)],
                             MapGet(map_to_nucleotide_modifications, Head(keys), <<>>),
                             {}, st))

GenerateSingles(map_target_to_formula, map_to_nucleotide_modifications) ==
  SinglesFrom(SortStrings(DOMAIN map_target_to_formula), map_target_to_formula,
              map_to_nucleotide_modifications,
              [actual_combinations |-> <<>>, mod_combinations |-> EmptyMap])

\* The loop "for (auto const & s : ambiguities)". ambiguities refers to the
\* set of ac; each of its strings, with the nucleotide put before it, is
\* inserted into the set of the new formula. When the new formula is the
\* formula of ac, the set iterated is the set inserted into: a string
\* inserted behind the iterator is not visited, one inserted ahead of it is
\* visited in turn, and its own extension sorts ahead of it again, so the
\* loop never ends once some s sorts before target + s.
InsertAmbiguities(mod_combinations, ac_key, new_key, target_nucleotide) ==
  LET mc == IF ac_key \in DOMAIN mod_combinations THEN mod_combinations
            ELSE MapPut(mod_combinations, ac_key, {})
      ambiguities == mc[ac_key]
      added == {target_nucleotide \o s : s \in ambiguities}
  IN  IF ambiguities = {} THEN [mod_combinations |-> mc, diverged |-> FALSE]
      ELSE IF new_key = ac_key /\ \E s \in ambiguities : StrLess(s, target_nucleotide \o s)
      THEN [mod_combinations |-> mc, diverged |-> TRUE]
      ELSE [mod_combinations |-> MapPut(mc, new_key, MapGet(mc, new_key, {}) \cup added),
            diverged |-> FALSE]

\* ExtendWith that leaves out the water lost in the condensation.
ExtendWith_NoCondensation(target_nucleotide, target_nucleotide_formula, ac, st) ==
  IF st.diverged THEN st
  ELSE LET nf == FormulaAdd(target_nucleotide_formula, ac)
           ins == InsertAmbiguities(st.mod_combinations, FormulaToString(ac),
                                    FormulaToString(nf), target_nucleotide)
       IN  [new_combinations |-> Append(st.new_combinations, nf),
            all_combinations |-> Append(st.all_combinations, nf),
            mod_combinations |-> ins.mod_combinations,
            diverged |-> ins.diverged]

\* The body of the loop over actual_combinations: one unmodified nucleotide
\* put before one combination.
ExtendWith(target_nucleotide, target_nucleotide_formula, ac, st) ==
  IF st.diverged THEN st
  ELSE LET nf == FormulaSub(FormulaAdd(target_nucleotide_formula, ac), Water)
           ins == InsertAmbiguities(st.mod_combinations, FormulaToString(ac),
                                    FormulaToString(nf), target_nucleotide)
       IN  [new_combinations |-> Append(st.new_combinations, nf),
            all_combinations |-> Append(st.all_combinations, nf),
            mod_combinations |-> ins.mod_combinations,
            diverged |-> ins.diverged]

\* The (unmodified nucleotide, combination) pairs in the order the loop over
\* map_target_to_formula and the loop over actual_combinations visit them.
ExtendOrder(map_target_to_formula, actual_combinations) ==
  LET keys == SortStrings(DOMAIN map_target_to_formula)
  IN  Concat([k \in 1..Len(keys) |->
                [a \in 1..Len(actual_combinations) |-> <<keys[k], actual_combinations[a]>>]])

\* The iterations lo..hi of the two nested loops, the range taken in halves.
RECURSIVE ExtendFrom(_, _, _, _, _)
ExtendFrom(order, lo, hi, map_target_to_formula, st) ==
  IF lo > hi THEN st
  ELSE IF lo = hi
  THEN ExtendWith(order[lo][1], map_target_to_formula[order[lo][1]], order[lo][2], st)
  ELSE LET mid  == (lo + hi) \div 2
           left == ExtendFrom(order, lo, mid, map_target_to_formula, st)
       IN  IF left.diverged THEN left
           ELSE ExtendFrom(order, mid + 1, hi, map_target_to_formula, left)

\* One round of the chain extension.
ExtendRound(map_target_to_formula, actual_combinations, all_combinations, mod_combinations) ==
  LET order == ExtendOrder(map_target_to_formula, actual_combinations)
  IN  ExtendFrom(order, 1, Len(order), map_target_to_formula,
                 [new_combinations |-> <<>>, all_combinations |-> all_combinations,
                  mod_combinations |-> mod_combinations, diverged |-> FALSE])

\* result.formula2mass[all_combinations[i].toString()] = getMonoWeight() for
\* every i in turn: a string met more than once keeps the last assignment.
ComputeMasses(all_combinations, formula2mass) ==
  LET strings  == <<>> \o [i \in 1..Len(all_combinations) |->
                             FormulaToString(all_combinations[i])]
      assigned == {strings[i] : i \in 1..Len(strings)}
  IN  [s \in (DOMAIN formula2mass) \cup assigned |->
         IF s \in assigned
         THEN LET last == CHOOSE i \in 1..Len(strings) :
                            /\ strings[i] = s
                            /\ \A j \in (i + 1)..Len(strings) : strings[j] # s
              IN  MonoWeight(all_combinations[last])
         ELSE formula2mass[s]]

\* ------------------------------------------------------------------------
\* initModificationMassesNA: the restriction filter and the result
\* ------------------------------------------------------------------------

\* The nucleotide-style string cut at its first '-' or '+' (p = min(p1, p2),
\* npos being the largest value).
StripModification(s) ==
  LET p1 == FindChar(s, "-")
      p2 == FindChar(s, "+")
      p  == IF p1 = 0 THEN p2 ELSE IF p2 = 0 THEN p1 ELSE IF p1 < p2 THEN p1 ELSE p2
  IN  IF p # 0 THEN SubSeq(s, 1, p - 1) ELSE s

\* The sorted nucleotide composition of a nucleotide-style string.
Composition(s) == SortChars(StripModification(s))

CountLower(nucleotide_style_formula) ==
  Cardinality({i \in 1..Len(nucleotide_style_formula) : IsLower(nucleotide_style_formula[i])})

\* HasXlNt with the check for a cross-linkable nucleotide left out.
HasXlNt_Always(nucleotide_style_formula, can_xl) == TRUE

HasXlNt(nucleotide_style_formula, can_xl) ==
  \E i \in 1..Len(nucleotide_style_formula) : nucleotide_style_formula[i] \in can_xl

\* FoundInNGroups that stops counting at the first group found.
FoundInNGroups_AtMostOne(nucleotide_style_formula, nt_groups) ==
  IF \E g \in 1..Len(nt_groups) :
       \E i \in 1..Len(nucleotide_style_formula) :
         \E j \in 1..Len(nt_groups[g]) : nucleotide_style_formula[i] = nt_groups[g][j]
  THEN 1 ELSE 0

\* The number of nt_groups strings with a character in the composition
\* (find_first_of).
FoundInNGroups(nucleotide_style_formula, nt_groups) ==
  Cardinality({g \in 1..Len(nt_groups) :
                 \E i \in 1..Len(nucleotide_style_formula) :
                   \E j \in 1..Len(nt_groups[g]) :
                     nucleotide_style_formula[i] = nt_groups[g][j]})

\* violation_count == target_sequences.size()
ContainmentViolated(nucleotide_style_formula, target_sequences) ==
  Cardinality({i \in 1..Len(target_sequences) :
                 notInSeq(target_sequences[i], nucleotide_style_formula)})
    = Len(target_sequences)

\* AlreadyAdded with the search for the (composition, mass) pair left out.
AlreadyAdded_Never(unique_nucleotide_and_mod_composition, nucleotide_style_formula, mass) ==
  FALSE

\* find(unique_nucleotide_and_mod_composition, make_pair(composition, mass))
AlreadyAdded(unique_nucleotide_and_mod_composition, nucleotide_style_formula, mass) ==
  \E i \in 1..Len(unique_nucleotide_and_mod_composition) :
    unique_nucleotide_and_mod_composition[i] = <<nucleotide_style_formula, mass>>

\* The four rules that end an iteration with "continue": more than one
\* lower-case letter, no cross-linkable nucleotide, more nucleotides than
\* max_length, nucleotides of more than one group.
EndsIteration(nucleotide_style_formula, can_xl, nt_groups, max_length) ==
  \/ CountLower(nucleotide_style_formula) >= 2
  \/ ~HasXlNt(nucleotide_style_formula, can_xl)
  \/ Len(nucleotide_style_formula) > max_length
  \/ FoundInNGroups(nucleotide_style_formula, nt_groups) > 1

\* The body of the inner loop for one (formula, nucleotide-style string),
\* unique being unique_nucleotide_and_mod_composition as the iterations before
\* left it: the entries the iteration appends to violates_restriction. The
\* containment rule and the duplicate rule do not end the iteration, so a
\* pair can be appended by both.
FilterPair(formula, mass, s, can_xl, nt_groups, max_length, target_sequences, unique) ==
  LET nucleotide_style_formula == Composition(s)
  IN  IF EndsIteration(nucleotide_style_formula, can_xl, nt_groups, max_length)
      THEN <<<<formula, s>>>>
      ELSE (IF ContainmentViolated(nucleotide_style_formula, target_sequences)
            THEN <<<<formula, s>>>> ELSE <<>>)
           \o (IF AlreadyAdded(unique, nucleotide_style_formula, mass)
               THEN <<<<formula, s>>>> ELSE <<>>)

\* The (formula, nucleotide-style string) pairs in the order the loop over
\* result.formula2mass and the loop over the ambiguity set visit them.
FilterOrder(result) ==
  LET keys == SortStrings(DOMAIN result.formula2mass)
  IN  Concat([k \in 1..Len(keys) |->
                LET ambiguities == SortStrings(MapGet(result.mod_combinations, keys[k], {}))
                IN  [a \in 1..Len(ambiguities) |-> <<keys[k], ambiguities[a]>>]])

\* What each iteration pushes to unique_nucleotide_and_mod_composition: the
\* (composition, mass) pair of every iteration that reaches the end of the
\* loop body.
PushedUnique(order, result, can_xl, nt_groups, max_length) ==
  <<>> \o [i \in 1..Len(order) |->
             IF EndsIteration(Composition(order[i][2]), can_xl, nt_groups, max_length)
             THEN <<>>
             ELSE <<<<Composition(order[i][2]), result.formula2mass[order[i][1]]>>>>]

\* The pairs that violate a restriction, in the order the loops find them.
ViolatesRestriction(result, can_xl, nt_groups, max_length, target_sequences) ==
  LET order  == FilterOrder(result)
      pushed == PushedUnique(order, result, can_xl, nt_groups, max_length)
  IN  Concat([j \in 1..Len(order) |->
                FilterPair(order[j][1], result.formula2mass[order[j][1]], order[j][2],
                           can_xl, nt_groups, max_length, target_sequences,
                           Concat(SubSeq(pushed, 1, j - 1)))])

\* EraseViolations that empties the ambiguity set of every formula with a
\* violation.
EraseViolations_WholeSet(mod_combinations, violates_restriction) ==
  LET violations == {violates_restriction[i] : i \in 1..Len(violates_restriction)}
  IN  [chemical_formula \in (DOMAIN mod_combinations) \cup {v[1] : v \in violations} |->
         IF \E v \in violations : v[1] = chemical_formula THEN {}
         ELSE MapGet(mod_combinations, chemical_formula, {})]

\* result.mod_combinations[chemical_formula].erase(nucleotide style formula)
EraseViolations(mod_combinations, violates_restriction) ==
  LET violations == {violates_restriction[i] : i \in 1..Len(violates_restriction)}
  IN  [chemical_formula \in (DOMAIN mod_combinations) \cup {v[1] : v \in violations} |->
         MapGet(mod_combinations, chemical_formula, {})
           \ {v[2] : v \in {w \in violations : w[1] = chemical_formula}}]

\* RemoveEmpty without "result.formula2mass.erase(mcit->first)".
RemoveEmpty_KeepsMass(result) ==
  LET empty == {k \in DOMAIN result.mod_combinations : result.mod_combinations[k] = {}}
  IN  [formula2mass |-> result.formula2mass,
       mod_combinations |->
         [k \in (DOMAIN result.mod_combinations) \ empty |-> result.mod_combinations[k]]]

\* The erase idiom: a key with an empty ambiguity set leaves both maps.
RemoveEmpty(result) ==
  LET empty == {k \in DOMAIN result.mod_combinations : result.mod_combinations[k] = {}}
  IN  [formula2mass |-> [k \in (DOMAIN result.formula2mass) \ empty |-> result.formula2mass[k]],
       mod_combinations |->
         [k \in (DOMAIN result.mod_combinations) \ empty |-> result.mod_combinations[k]]]

cysteine_adduct_string == <<"C", "4", "H", "8", "S", "2", "O", "2">>

cysteine_adduct_formula == ParseFormula(cysteine_adduct_string)

\* AddCysteineAdduct with cysteine_adduct_string as the key instead of
\* cysteine_adduct_formula.toString().
AddCysteineAdduct_LabelAsKey(result, cysteine_adduct) ==
  IF cysteine_adduct
  THEN [formula2mass |-> MapPut(result.formula2mass, cysteine_adduct_string,
                                MonoWeight(cysteine_adduct_formula)),
        mod_combinations |->
          MapPut(result.mod_combinations, cysteine_adduct_string,
                 MapGet(result.mod_combinations, cysteine_adduct_string, {})
                   \cup {cysteine_adduct_string})]
  ELSE result

\* Optional: add the cysteine (DTT) adduct.
AddCysteineAdduct(result, cysteine_adduct) ==
  IF cysteine_adduct
  THEN LET key == FormulaToString(cysteine_adduct_formula)
       IN  [formula2mass |-> MapPut(result.formula2mass, key, MonoWeight(cysteine_adduct_formula)),
            mod_combinations |->
              MapPut(result.mod_combinations, key,
                     MapGet(result.mod_combinations, key, {}) \cup {cysteine_adduct_string})]
  ELSE result

\* result.mod_combinations[formula] in the filter loop creates the entry of
\* a formula that has a mass and no ambiguity set yet.
TouchKeys(result) ==
  [result EXCEPT !.mod_combinations =
     [k \in (DOMAIN result.mod_combinations) \cup (DOMAIN result.formula2mass) |->
        MapGet(result.mod_combinations, k, {})]]

EmptyResult == [formula2mass |-> EmptyMap, mod_combinations |-> EmptyMap]

\* ------------------------------------------------------------------------
\* initModificationMassesNA as one function of its arguments
\* ------------------------------------------------------------------------

\* The rounds of the chain extension from round i on.
RECURSIVE ExtendRounds(_, _, _)
ExtendRounds(map_target_to_formula, max_length, st) ==
  IF st.i >= max_length - 1 \/ st.diverged THEN st
  ELSE LET r == ExtendRound(map_target_to_formula, st.actual_combinations,
                            st.all_combinations, st.mod_combinations)
       IN  ExtendRounds(map_target_to_formula, max_length,
                        [i |-> st.i + 1, actual_combinations |-> r.new_combinations,
                         all_combinations |-> r.all_combinations,
                         mod_combinations |-> r.mod_combinations, diverged |-> r.diverged])

\* The result after the filter, the erasures and the optional adduct.
FilterAndAssemble(generated, can_xl, nt_groups, max_length, target_sequences, cysteine_adduct) ==
  LET touched == TouchKeys(generated)
      violates == ViolatesRestriction(generated, can_xl, nt_groups, max_length, target_sequences)
      erased == [touched EXCEPT !.mod_combinations = EraseViolations(@, violates)]
  IN  AddCysteineAdduct(RemoveEmpty(erased), cysteine_adduct)

\* The call up to the filter: how it ends there, the restriction sequence
\* that is expanded, the target sequences, and the masses and ambiguity
\* sets generated.
Generate(cfg) ==
  LET map_target_to_formula == ParseTargets(cfg.target_nucleotides, EmptyMap)
      erased == EraseTrivial(ParseMappings(cfg.mappings, EmptyMap),
                             AutoRestriction(cfg.sequence_restriction,
                                             SourceNucleotides(cfg.mappings), cfg.max_length))
      parsed == ParseModifications(cfg.modifications, EmptyMap)
      target_sequences == generateTargetSequences(erased.sequence_restriction, 0,
                                                  erased.map_source_to_targets)
      singles == GenerateSingles(map_target_to_formula, parsed.map)
      extended == ExtendRounds(map_target_to_formula, cfg.max_length,
                    [i |-> 0, actual_combinations |-> singles.actual_combinations,
                     all_combinations |-> singles.actual_combinations,
                     mod_combinations |-> singles.mod_combinations, diverged |-> FALSE])
  IN  IF parsed.thrown
      THEN [status |-> "thrown", sequence_restriction |-> erased.sequence_restriction,
            target_sequences |-> <<>>, generated |-> EmptyResult]
      ELSE IF extended.diverged
      THEN [status |-> "diverged", sequence_restriction |-> erased.sequence_restriction,
            target_sequences |-> target_sequences, generated |-> EmptyResult]
      ELSE [status |-> "done", sequence_restriction |-> erased.sequence_restriction,
            target_sequences |-> target_sequences,
            generated |-> [formula2mass |-> ComputeMasses(extended.all_combinations, EmptyMap),
                           mod_combinations |-> extended.mod_combinations]]

\* The outcome of a call: how it ends, the restriction sequence that is
\* expanded, the target sequences, and the result if it returns.
Run(cfg) ==
  LET g == Generate(cfg)
  IN  [status |-> g.status, sequence_restriction |-> g.sequence_restriction,
       target_sequences |-> g.target_sequences,
       result |-> IF g.status = "done"
                  THEN FilterAndAssemble(g.generated, cfg.can_xl, cfg.nt_groups,
                                         cfg.max_length, g.target_sequences,
                                         cfg.cysteine_adduct)
                  ELSE EmptyResult]

\* ------------------------------------------------------------------------
\* Bounds and the configurations explored
\* ------------------------------------------------------------------------

\* The largest max_length.
MaxLength == 2

\* The longest restriction sequence a caller supplies.
MaxSeqLen == 2

\* The largest number of modification strings.
MaxMods == 2

\* The largest number of mapping strings.
MaxMappings == 2

\* The longest target list of a direct call of generateTargetSequences.
MaxTargets == 2

\* All sequences over S of length at most n.
RECURSIVE SeqsUpTo(_, _)
SeqsUpTo(S, n) ==
  IF n = 0 THEN {<<>>}
  ELSE LET shorter == SeqsUpTo(S, n - 1)
       IN  shorter \cup {Append(q, x) : q \in shorter, x \in S}

NucleotideA == <<"A", "=", "C", "3", "H", "6", "O", "3">>
NucleotideU == <<"U", "=", "C", "2", "H", "6", "O", "4">>
NucleotideD == <<"d", "=", "C", "H", "4", "O", "2">>
\* A symbol whose formula is that of water: putting it before a combination
\* gives the formula of the combination itself.
NucleotideAWater == <<"A", "=", "H", "2", "O">>

ModU == <<"U", ":">>
ModULoss == <<"U", ":", "-", "H", "2", "O">>
ModUGainLoss == <<"U", ":", "+", "H", "2", "O", "-", "H", "2", "O">>
ModA == <<"A", ":">>
ModALoss == <<"A", ":", "-", "H", "2", "O">>
ModD == <<"d", ":">>
ModNoColon == <<"U", "-", "H", "2", "O">>

Rule(source, target) == <<source, "-", ">", target>>

\* Configurations that vary the modification list.
ModificationConfigs ==
  [target_nucleotides : {<<NucleotideA, NucleotideU>>},
   nt_groups : {<<>>},
   can_xl : {{"U"}},
   mappings : {<<>>},
   modifications : SeqsUpTo({ModU, ModULoss, ModUGainLoss, ModA, ModALoss, ModNoColon}, MaxMods),
   sequence_restriction : {<<"A", "U">>},
   cysteine_adduct : BOOLEAN,
   max_length : {2}]

\* Configurations that vary what the restriction filter reads.
FilterConfigs ==
  [target_nucleotides : {<<NucleotideA, NucleotideU, NucleotideD>>},
   nt_groups : {<<>>, <<<<"A", "U">>, <<"d">>>>, <<<<"A", "C", "U">>, <<"A", "C", "d">>>>},
   can_xl : {{"U"}, {"U", "d"}},
   mappings : {<<>>},
   modifications : {<<ModA, ModU, ModD, ModULoss, ModALoss>>},
   sequence_restriction : SeqsUpTo({"A", "U", "d"}, MaxSeqLen),
   cysteine_adduct : BOOLEAN,
   max_length : 0..MaxLength]

\* Configurations that vary the mapping rules. Without a restriction
\* sequence max_length is 1, which keeps the generated sequence short.
MappingConfigs ==
  {c \in [target_nucleotides : {<<NucleotideA, NucleotideU, NucleotideD>>},
          nt_groups : {<<>>},
          can_xl : {{"A", "U"}},
          mappings : SeqsUpTo({Rule(x, y) : x \in {"A", "U"}, y \in {"A", "U", "d"}},
                              MaxMappings),
          modifications : {<<ModA, ModU, ModD>>},
          sequence_restriction : {<<>>, <<"A", "U">>, <<"U", "d", "A">>},
          cysteine_adduct : {FALSE},
          max_length : {1, 2}] :
     (c.sequence_restriction = <<>>) <=> (c.max_length = 1)}

\* Configurations in which a chain-extended formula equals the formula it
\* was extended from.
SelfInsertionConfigs ==
  [target_nucleotides : {<<NucleotideAWater, NucleotideU>>},
   nt_groups : {<<>>},
   can_xl : {{"U"}},
   mappings : {<<>>},
   modifications : SeqsUpTo({ModA, ModU, ModULoss}, MaxMods),
   sequence_restriction : {<<"A", "U">>},
   cysteine_adduct : {FALSE},
   max_length : {2}]

\* Configurations without a restriction sequence and with chains of two
\* symbols: a rename, and an identity beside a rename.
AutoRestrictionConfigs ==
  [target_nucleotides : {<<NucleotideA, NucleotideU, NucleotideD>>},
   nt_groups : {<<>>},
   can_xl : {{"A", "U"}},
   mappings : {<<Rule("A", "U")>>, <<Rule("A", "A"), Rule("U", "d")>>},
   modifications : {<<ModA, ModU, ModD>>},
   sequence_restriction : {<<>>},
   cysteine_adduct : {FALSE},
   max_length : {2}]

Configs ==
  ModificationConfigs \cup FilterConfigs \cup MappingConfigs \cup SelfInsertionConfigs
    \cup AutoRestrictionConfigs

\* The rule maps of a direct call of generateTargetSequences: every source
\* with at least one target.
TargetLists == SeqsUpTo({"A", "U", "d"}, MaxTargets) \ {<<>>}

RuleMaps ==
  UNION {[srcs -> TargetLists] : srcs \in SUBSET {"A", "U"}}

\* ------------------------------------------------------------------------
\* The state machine
\* ------------------------------------------------------------------------

VARIABLES
  call,                            \* the function called
  pc,                              \* the place of the call in its code
  cfg,                             \* the arguments of initModificationMassesNA
  sequence_restriction,            \* the local copy of the restriction sequence
  map_target_to_formula,
  map_source_to_targets,
  source_nucleotides,
  map_to_nucleotide_modifications,
  target_sequences,
  actual_combinations,
  all_combinations,
  round,                           \* i of the chain extension loop
  result,
  violates_restriction,
  warnings                         \* the warnings logged so far

vars == <<call, pc, cfg, sequence_restriction, map_target_to_formula, map_source_to_targets,
          source_nucleotides, map_to_nucleotide_modifications, target_sequences,
          actual_combinations, all_combinations, round, result, violates_restriction,
          warnings>>

NoCfg == [target_nucleotides |-> <<>>, nt_groups |-> <<>>, can_xl |-> {}, mappings |-> <<>>,
          modifications |-> <<>>, sequence_restriction |-> <<>>, cysteine_adduct |-> FALSE,
          max_length |-> 0]

Locals0 ==
  /\ map_target_to_formula = EmptyMap
  /\ source_nucleotides = <<>>
  /\ map_to_nucleotide_modifications = EmptyMap
  /\ target_sequences = <<>>
  /\ actual_combinations = <<>>
  /\ all_combinations = <<>>
  /\ round = 0
  /\ result = EmptyResult
  /\ violates_restriction = <<>>
  /\ warnings = {}

\* A call of initModificationMassesNA with its arguments.
InitGenerator ==
  /\ call = "initModificationMassesNA"
  /\ pc = "read_configuration"
  /\ cfg \in Configs
  /\ sequence_restriction = cfg.sequence_restriction
  /\ map_source_to_targets = EmptyMap
  /\ Locals0

\* A call of generateTargetSequences(res_seq, 0, map_source2target, out) with
\* an empty out.
InitExpander ==
  /\ call = "generateTargetSequences"
  /\ pc = "expand"
  /\ cfg = NoCfg
  /\ sequence_restriction \in SeqsUpTo({"A", "U", "d"}, MaxSeqLen)
  /\ map_source_to_targets \in RuleMaps
  /\ Locals0

Init == InitGenerator \/ InitExpander

\* Lines 87-111.
ReadConfiguration ==
  /\ pc = "read_configuration"
  /\ map_target_to_formula' = ParseTargets(cfg.target_nucleotides, EmptyMap)
  /\ map_source_to_targets' = ParseMappings(cfg.mappings, EmptyMap)
  /\ source_nucleotides' = SourceNucleotides(cfg.mappings)
  /\ pc' = "auto_restriction"
  /\ UNCHANGED <<call, cfg, sequence_restriction, map_to_nucleotide_modifications,
                 target_sequences, actual_combinations, all_combinations, round, result,
                 violates_restriction, warnings>>

\* Lines 113-144.
AutoGenerateRestriction ==
  /\ pc = "auto_restriction"
  /\ sequence_restriction' = AutoRestriction(sequence_restriction, source_nucleotides,
                                             cfg.max_length)
  /\ pc' = "erase_trivial"
  /\ UNCHANGED <<call, cfg, map_target_to_formula, map_source_to_targets, source_nucleotides,
                 map_to_nucleotide_modifications, target_sequences, actual_combinations,
                 all_combinations, round, result, violates_restriction, warnings>>

\* Lines 146-174.
EraseTrivialRules ==
  /\ pc = "erase_trivial"
  /\ LET e == EraseTrivial(map_source_to_targets, sequence_restriction)
     IN  /\ map_source_to_targets' = e.map_source_to_targets
         /\ sequence_restriction' = e.sequence_restriction
         /\ warnings' = IF WarnNoRestriction(e.map_source_to_targets, e.sequence_restriction)
                        THEN warnings \cup {"no restriction on sequence"}
                        ELSE warnings
  /\ pc' = "parse_modifications"
  /\ UNCHANGED <<call, cfg, map_target_to_formula, source_nucleotides,
                 map_to_nucleotide_modifications, target_sequences, actual_combinations,
                 all_combinations, round, result, violates_restriction>>

\* Lines 184-230: the exception ends the call without a result.
ParseModificationStrings ==
  /\ pc = "parse_modifications"
  /\ LET p == ParseModifications(cfg.modifications, EmptyMap)
     IN  /\ map_to_nucleotide_modifications' = p.map
         /\ pc' = IF p.thrown THEN "thrown" ELSE "target_sequences"
  /\ UNCHANGED <<call, cfg, sequence_restriction, map_target_to_formula,
                 map_source_to_targets, source_nucleotides, target_sequences,
                 actual_combinations, all_combinations, round, result, violates_restriction,
                 warnings>>

\* Lines 232-234.
ExpandTargetSequences ==
  /\ pc = "target_sequences"
  /\ target_sequences' = target_sequences
       \o generateTargetSequences(sequence_restriction, 0, map_source_to_targets)
  /\ pc' = "singles"
  /\ UNCHANGED <<call, cfg, sequence_restriction, map_target_to_formula,
                 map_source_to_targets, source_nucleotides, map_to_nucleotide_modifications,
                 actual_combinations, all_combinations, round, result, violates_restriction,
                 warnings>>

\* Lines 256-307. A modification of a formula met before would be skipped
\* with a warning.
GenerateSingleNucleotides ==
  /\ pc = "singles"
  /\ LET g == GenerateSingles(map_target_to_formula, map_to_nucleotide_modifications)
     IN  /\ actual_combinations' = g.actual_combinations
         /\ all_combinations' = g.actual_combinations
         /\ result' = [result EXCEPT !.mod_combinations = g.mod_combinations]
  /\ round' = 0
  /\ pc' = "extend"
  /\ UNCHANGED <<call, cfg, sequence_restriction, map_target_to_formula,
                 map_source_to_targets, source_nucleotides, map_to_nucleotide_modifications,
                 target_sequences, violates_restriction, warnings>>

\* Lines 308-329: one round of the chain extension.
ExtendChains ==
  /\ pc = "extend"
  /\ round < cfg.max_length - 1
  /\ LET r == ExtendRound(map_target_to_formula, actual_combinations, all_combinations,
                          result.mod_combinations)
     IN  /\ actual_combinations' = r.new_combinations
         /\ all_combinations' = r.all_combinations
         /\ result' = [result EXCEPT !.mod_combinations = r.mod_combinations]
         /\ pc' = IF r.diverged THEN "diverged" ELSE "extend"
  /\ round' = round + 1
  /\ UNCHANGED <<call, cfg, sequence_restriction, map_target_to_formula,
                 map_source_to_targets, source_nucleotides, map_to_nucleotide_modifications,
                 target_sequences, violates_restriction, warnings>>

\* Lines 331-334.
ComputeAllMasses ==
  /\ pc = "extend"
  /\ ~(round < cfg.max_length - 1)
  /\ result' = [result EXCEPT !.formula2mass = ComputeMasses(all_combinations, @)]
  /\ pc' = "filter"
  /\ UNCHANGED <<call, cfg, sequence_restriction, map_target_to_formula,
                 map_source_to_targets, source_nucleotides, map_to_nucleotide_modifications,
                 target_sequences, actual_combinations, all_combinations, round,
                 violates_restriction, warnings>>

\* Lines 348-440.
FilterRestrictions ==
  /\ pc = "filter"
  /\ violates_restriction' = ViolatesRestriction(result, cfg.can_xl, cfg.nt_groups,
                                                 cfg.max_length, target_sequences)
  /\ result' = TouchKeys(result)
  /\ pc' = "erase_violations"
  /\ UNCHANGED <<call, cfg, sequence_restriction, map_target_to_formula,
                 map_source_to_targets, source_nucleotides, map_to_nucleotide_modifications,
                 target_sequences, actual_combinations, all_combinations, round, warnings>>

\* Lines 442-450.
EraseViolatingPairs ==
  /\ pc = "erase_violations"
  /\ result' = [result EXCEPT !.mod_combinations = EraseViolations(@, violates_restriction)]
  /\ pc' = "remove_empty"
  /\ UNCHANGED <<call, cfg, sequence_restriction, map_target_to_formula,
                 map_source_to_targets, source_nucleotides, map_to_nucleotide_modifications,
                 target_sequences, actual_combinations, all_combinations, round,
                 violates_restriction, warnings>>

\* Lines 452-464.
RemoveEmptySets ==
  /\ pc = "remove_empty"
  /\ result' = RemoveEmpty(result)
  /\ pc' = "adduct"
  /\ UNCHANGED <<call, cfg, sequence_restriction, map_target_to_formula,
                 map_source_to_targets, source_nucleotides, map_to_nucleotide_modifications,
                 target_sequences, actual_combinations, all_combinations, round,
                 violates_restriction, warnings>>

\* Lines 466-471 and the return of the result.
AddAdductAndReturn ==
  /\ pc = "adduct"
  /\ result' = AddCysteineAdduct(result, cfg.cysteine_adduct)
  /\ pc' = "done"
  /\ UNCHANGED <<call, cfg, sequence_restriction, map_target_to_formula,
                 map_source_to_targets, source_nucleotides, map_to_nucleotide_modifications,
                 target_sequences, actual_combinations, all_combinations, round,
                 violates_restriction, warnings>>

\* The direct call of generateTargetSequences.
CallGenerateTargetSequences ==
  /\ pc = "expand"
  /\ target_sequences' = target_sequences
       \o generateTargetSequences(sequence_restriction, 0, map_source_to_targets)
  /\ pc' = "expanded"
  /\ UNCHANGED <<call, cfg, sequence_restriction, map_target_to_formula,
                 map_source_to_targets, source_nucleotides, map_to_nucleotide_modifications,
                 actual_combinations, all_combinations, round, result, violates_restriction,
                 warnings>>

Next ==
  \/ ReadConfiguration
  \/ AutoGenerateRestriction
  \/ EraseTrivialRules
  \/ ParseModificationStrings
  \/ ExpandTargetSequences
  \/ GenerateSingleNucleotides
  \/ ExtendChains
  \/ ComputeAllMasses
  \/ FilterRestrictions
  \/ EraseViolatingPairs
  \/ RemoveEmptySets
  \/ AddAdductAndReturn
  \/ CallGenerateTargetSequences

Spec == Init /\ [][Next]_vars

\* ------------------------------------------------------------------------
\* Properties
\* ------------------------------------------------------------------------

Returned == call = "initModificationMassesNA" /\ pc = "done"

\* The singles are generated and no chain is extended yet.
SinglesGenerated == call = "initModificationMassesNA" /\ pc = "extend" /\ round = 0

\* The (formula, nucleotide-style string) pairs of a result.
Pairs(r) ==
  UNION {{<<k, s>> : s \in r.mod_combinations[k]} : k \in DOMAIN r.mod_combinations}

KeyOf(nucleotide) == FormulaToString(map_target_to_formula[nucleotide])

\* The scenario of C1: symbols {A, U}, cross-linkable {U}, max_length 2, no
\* modifications, no rules, restriction sequence "AU".
C1_Scenario ==
  cfg = [target_nucleotides |-> <<NucleotideA, NucleotideU>>, nt_groups |-> <<>>,
         can_xl |-> {"U"}, mappings |-> <<>>, modifications |-> <<>>,
         sequence_restriction |-> <<"A", "U">>, cysteine_adduct |-> FALSE, max_length |-> 2]

\* C1: every nucleotide with a base formula yields its unmodified formula as
\* a single-nucleotide combination with the bare symbol as its string, also
\* without a modification string for it; in the scenario the result holds
\* the formula of U with "U" and the formula of A + U - H2O, and not the
\* formula of A.
C1_UnmodifiedAlwaysGenerated ==
  /\ SinglesGenerated =>
       \A nucleotide \in DOMAIN map_target_to_formula :
         /\ KeyOf(nucleotide) \in DOMAIN result.mod_combinations
         /\ nucleotide \in result.mod_combinations[KeyOf(nucleotide)]
         /\ \E i \in 1..Len(actual_combinations) :
              actual_combinations[i] = map_target_to_formula[nucleotide]
  /\ (Returned /\ C1_Scenario) =>
       LET fa == map_target_to_formula[<<"A">>]
           fu == map_target_to_formula[<<"U">>]
           au == FormulaToString(FormulaSub(FormulaAdd(fa, fu), Water))
       IN  /\ FormulaToString(fu) \in DOMAIN result.formula2mass
           /\ FormulaToString(fu) \in DOMAIN result.mod_combinations
           /\ <<"U">> \in MapGet(result.mod_combinations, FormulaToString(fu), {})
           /\ au \in DOMAIN result.formula2mass
           /\ FormulaToString(fa) \notin DOMAIN result.formula2mass

\* C2: in the returned result the mass map and the ambiguity map have the
\* same keys.
C2_KeysSynchronized ==
  Returned => DOMAIN result.formula2mass = DOMAIN result.mod_combinations

\* A call returned with the fixed adduct after the filter removed every
\* string of some generated formula and kept others.
C2_Witness ==
  /\ Returned
  /\ cfg.cysteine_adduct
  /\ Cardinality(DOMAIN result.formula2mass) >= 3
  /\ \E i \in 1..Len(all_combinations) :
       FormulaToString(all_combinations[i]) \notin DOMAIN result.formula2mass

\* a is an anagram of b.
Anagram(a, b) ==
  /\ Len(a) = Len(b)
  /\ \A c \in {a[i] : i \in 1..Len(a)} \cup {b[i] : i \in 1..Len(b)} :
       Cardinality({i \in 1..Len(a) : a[i] = c}) = Cardinality({i \in 1..Len(b) : b[i] = c})

\* What C3 says of the composition of a retained string.
C3_Allowed(s) ==
  LET composition == StripModification(s)
  IN  /\ \E i \in 1..Len(composition) : composition[i] \in cfg.can_xl
      /\ Cardinality({i \in 1..Len(composition) : IsLower(composition[i])}) <= 1
      /\ Len(composition) <= cfg.max_length
      /\ \E t \in 1..Len(target_sequences) :
           \E l \in 1..(Len(target_sequences[t]) - Len(composition) + 1) :
             Anagram(SubSeq(target_sequences[t], l, l + Len(composition) - 1), composition)

\* The entry of the fixed adduct.
IsAdductEntry(k, s) ==
  /\ cfg.cysteine_adduct
  /\ k = FormulaToString(cysteine_adduct_formula)
  /\ s = cysteine_adduct_string

\* C3 as claimed: every string of the returned result, the label of the
\* fixed adduct included, has a composition with a cross-linkable symbol, at
\* most one lower-case symbol, a length of at most max_length, and is an
\* anagram of a window of a target sequence.
C3_Original ==
  Returned => \A p \in Pairs(result) : C3_Allowed(p[2])

\* C3 as amended: the same of every string of the returned result other than
\* the label of the fixed adduct under the adduct's key.
C3_RetainedAllowed ==
  Returned => \A p \in Pairs(result) : IsAdductEntry(p[1], p[2]) \/ C3_Allowed(p[2])

\* A call returned with the fixed adduct, a retained two-nucleotide string
\* that carries a modification, and pairs the filter rejected.
C3_Witness ==
  /\ Returned
  /\ cfg.cysteine_adduct
  /\ violates_restriction # <<>>
  /\ \E p \in Pairs(result) :
       /\ ~IsAdductEntry(p[1], p[2])
       /\ Len(StripModification(p[2])) = 2
       /\ Len(p[2]) > 2

\* The masses and ambiguity sets the call generated before the filter.
Generated == Generate(cfg).generated

\* p comes before q in the iteration order of the filter: by formula key,
\* then by string.
Before(p, q) == StrLess(p[1], q[1]) \/ (p[1] = q[1] /\ StrLess(p[2], q[2]))

\* p and q have the same sorted composition and the same mass.
SameCompositionAndMass(gen, p, q) ==
  /\ Anagram(StripModification(p[2]), StripModification(q[2]))
  /\ gen.formula2mass[p[1]] = gen.formula2mass[q[1]]

\* The string passes the rules 2 to 6 of the filter.
PassesRules2To6(s) ==
  /\ C3_Allowed(s)
  /\ Cardinality({g \in 1..Len(cfg.nt_groups) :
                    \E c \in {StripModification(s)[i] : i \in 1..Len(StripModification(s))} :
                      \E j \in 1..Len(cfg.nt_groups[g]) : cfg.nt_groups[g][j] = c}) <= 1

Retained(p) == p[1] \in DOMAIN result.mod_combinations /\ p[2] \in result.mod_combinations[p[1]]

\* Rule 7: a pair the filter visits before q has the composition and the
\* mass of q.
DuplicateOfEarlier(gen, pairs, q) ==
  \E p \in pairs : Before(p, q) /\ SameCompositionAndMass(gen, p, q)

\* Of the generated pairs that pass the rules 2 to 6, the ones retained are
\* the ones that are no duplicate of an earlier pair.
FirstOfDuplicatesKept(gen, pairs) ==
  \A p \in pairs :
    PassesRules2To6(p[2]) => (Retained(p) <=> ~DuplicateOfEarlier(gen, pairs, p))

\* C4: no two pairs of the returned result have the same sorted composition
\* and the same mass; of the generated pairs with one (composition, mass)
\* that pass the other rules, the first in iteration order is retained and
\* every later one is removed.
C4_FirstOfDuplicatesKept ==
  Returned =>
    /\ \A p, q \in Pairs(result) :
         (p # q /\ Anagram(StripModification(p[2]), StripModification(q[2])))
           => result.formula2mass[p[1]] # result.formula2mass[q[1]]
    /\ FirstOfDuplicatesKept(Generated, Pairs(Generated))

\* A call returned that kept one string and removed a later one of the same
\* composition and mass, which passes the other rules.
C4_Witness ==
  /\ Returned
  /\ \E p, q \in Pairs(Generated) :
       /\ PassesRules2To6(p[2]) /\ PassesRules2To6(q[2])
       /\ SameCompositionAndMass(Generated, p, q) /\ Before(p, q)
       /\ Len(StripModification(p[2])) = 2
       /\ Retained(p) /\ ~Retained(q)

\* The string and sum formula of the i-th modification of a nucleotide.
Modified(nucleotide, i) ==
  ApplySubFormulas(nucleotide, map_target_to_formula[nucleotide],
                   map_to_nucleotide_modifications[nucleotide][i])

\* The j-th modification of the nucleotide yields the formula of an earlier
\* one.
Collides(nucleotide, j) ==
  \E i \in 1..(j - 1) :
    FormulaToString(Modified(nucleotide, i).sum_formula)
      = FormulaToString(Modified(nucleotide, j).sum_formula)

\* C5: a modification that yields the formula of an earlier modification of
\* the same nucleotide is discarded: its string is not inserted into the
\* ambiguity set of the formula (the string of the first one is kept) and
\* its formula is not added again to the combinations that are extended.
C5_SecondSpecDiscarded ==
  SinglesGenerated =>
    /\ \A nucleotide \in (DOMAIN map_target_to_formula) \cap (DOMAIN map_to_nucleotide_modifications) :
         \A j \in 1..Len(map_to_nucleotide_modifications[nucleotide]) :
           Collides(nucleotide, j) =>
             \/ Modified(nucleotide, j).nt
                  \notin result.mod_combinations[FormulaToString(Modified(nucleotide, j).sum_formula)]
             \/ \E i \in 1..(j - 1) :
                  ~Collides(nucleotide, i) /\ Modified(nucleotide, i).nt = Modified(nucleotide, j).nt
    /\ Len(actual_combinations)
         = Cardinality(UNION {{<<nucleotide, j>> :
                                 j \in {i \in 1..Len(map_to_nucleotide_modifications[nucleotide]) :
                                          ~Collides(nucleotide, i)}} :
                              nucleotide \in (DOMAIN map_target_to_formula)
                                               \cap (DOMAIN map_to_nucleotide_modifications)})

\* The strings a call of generateTargetSequences appended.
Appended == {target_sequences[i] : i \in 1..Len(target_sequences)}

\* generateTargetSequences has run on sequence_restriction and
\* map_source_to_targets: called directly, or by initModificationMassesNA.
Expanded ==
  \/ call = "generateTargetSequences" /\ pc = "expanded"
  \/ call = "initModificationMassesNA" /\ pc = "singles"

Symbols == {"A", "U", "d"}

\* The strings over the symbols of the length of the expanded sequence.
SameLength == {t \in SeqsUpTo(Symbols, Len(sequence_restriction)) : Len(t) = Len(sequence_restriction)}

Targets(c) == {map_source_to_targets[c][i] : i \in 1..Len(map_source_to_targets[c])}

\* C6 as claimed: the strings appended are exactly the strings that keep
\* every symbol that is no source and hold one of the targets of the symbol
\* at every source position.
C6_Original ==
  Expanded =>
    Appended = {t \in SameLength :
                  \A i \in 1..Len(t) :
                    IF sequence_restriction[i] \in DOMAIN map_source_to_targets
                    THEN t[i] \in Targets(sequence_restriction[i])
                    ELSE t[i] = sequence_restriction[i]}

\* The number of matches the final check of generateTargetSequences counts
\* for t: one for a symbol that is no source, and for a source symbol one
\* for each entry of its target list that equals it.
Matches(t) ==
  Cardinality({pos \in 1..Len(t) : t[pos] \notin DOMAIN map_source_to_targets})
  + Cardinality(UNION {{<<pos, i>> :
                          i \in {j \in 1..Len(map_source_to_targets[t[pos]]) :
                                   map_source_to_targets[t[pos]][j] = t[pos]}} :
                       pos \in {q \in 1..Len(t) : t[q] \in DOMAIN map_source_to_targets}})

\* C6 as amended: the strings appended are exactly the strings that keep
\* every symbol that is no source, hold the symbol itself or one of its
\* targets at every source position, and pass the final check, Matches(t) =
\* Len(t): without a repeated target, every symbol of t is no source or is
\* among its own targets.
C6_ExactlyValidSubstitutions ==
  Expanded =>
    Appended = {t \in SameLength :
                  /\ \A i \in 1..Len(t) :
                       IF sequence_restriction[i] \in DOMAIN map_source_to_targets
                       THEN t[i] \in Targets(sequence_restriction[i]) \cup {sequence_restriction[i]}
                       ELSE t[i] = sequence_restriction[i]
                  /\ Matches(t) = Len(t)}

\* A direct call on a sequence of two source symbols in which one string
\* was appended and a substitution by a target that is a source, and not
\* its own target, was not.
C6_Witness ==
  /\ call = "generateTargetSequences" /\ pc = "expanded"
  /\ Len(sequence_restriction) = 2
  /\ \A i \in 1..2 : sequence_restriction[i] \in DOMAIN map_source_to_targets
  /\ Appended # {}
  /\ \E x \in Targets(sequence_restriction[1]) :
       /\ x \in DOMAIN map_source_to_targets
       /\ x \notin Targets(x)
       /\ \A t \in Appended : t[1] # x

\* The mapping list without its i-th string.
WithoutRule(i) == SubSeq(cfg.mappings, 1, i - 1) \o SubSeq(cfg.mappings, i + 1, Len(cfg.mappings))

\* The i-th mapping string is the only rule of its source.
OnlyRuleOfSource(i) ==
  \A j \in 1..Len(cfg.mappings) : j # i => cfg.mappings[j][1] # cfg.mappings[i][1]

\* The i-th mapping string is a trivial rule "A->A", the only rule of A.
TrivialRule(i) == OnlyRuleOfSource(i) /\ cfg.mappings[i][4] = cfg.mappings[i][1]

\* The i-th mapping string is a pure rename "A->X", the only rule of A.
RenameRule(i) == OnlyRuleOfSource(i) /\ cfg.mappings[i][4] # cfg.mappings[i][1]

\* The call without its i-th rule expands the same restriction sequence and
\* returns the same result.
SameWithoutRule(i) ==
  LET other == Run([cfg EXCEPT !.mappings = WithoutRule(i)])
  IN  /\ other.status = "done"
      /\ other.sequence_restriction = sequence_restriction
      /\ other.result = result

\* C7 as claimed: a trivial rule changes neither the restriction sequence
\* that is expanded nor the returned result, with a restriction sequence
\* supplied or without one.
C7_Original ==
  Returned => \A i \in 1..Len(cfg.mappings) : TrivialRule(i) => SameWithoutRule(i)

\* C7 as amended: the same, when the caller supplies a restriction sequence
\* that is not empty.
C7_TrivialRuleNoEffect ==
  (Returned /\ cfg.sequence_restriction # <<>>) =>
    \A i \in 1..Len(cfg.mappings) : TrivialRule(i) => SameWithoutRule(i)

\* A call with a restriction sequence and a trivial rule beside another
\* rule returned a result that is not empty.
C7_Witness ==
  /\ Returned
  /\ cfg.sequence_restriction # <<>>
  /\ Len(cfg.mappings) = 2
  /\ \E i \in 1..Len(cfg.mappings) : TrivialRule(i)
  /\ DOMAIN result.formula2mass # {}

\* The call without its i-th rule, a rename, on the restriction sequence
\* with the rename applied beforehand yields the same target sequences and
\* the same result.
SameAsRenamedBefore(i) ==
  LET other == Run([cfg EXCEPT !.mappings = WithoutRule(i),
                               !.sequence_restriction =
                                  SubstituteChar(@, cfg.mappings[i][1], cfg.mappings[i][4])])
  IN  /\ other.status = "done"
      /\ other.target_sequences = target_sequences
      /\ other.result = result

\* C8 as claimed: a pure rename rule is equivalent to replacing A by X in
\* the restriction sequence beforehand and leaving the rule out.
C8_Original ==
  Returned => \A i \in 1..Len(cfg.mappings) : RenameRule(i) => SameAsRenamedBefore(i)

\* Another pure rename, of a source that sorts before the source of the
\* i-th rule, renames to that source or renames the target of the i-th rule.
ComposesWithEarlierRename(i) ==
  \E j \in 1..Len(cfg.mappings) :
    /\ j # i
    /\ RenameRule(j)
    /\ Ascii[cfg.mappings[j][1]] < Ascii[cfg.mappings[i][1]]
    /\ \/ cfg.mappings[j][4] = cfg.mappings[i][1]
       \/ cfg.mappings[j][1] = cfg.mappings[i][4]

\* C8 as amended: the same, when the caller supplies a restriction sequence
\* that is not empty and no other pure rename of a source that sorts before
\* A has A as its target or X as its source.
C8_RenameIsSubstitution ==
  (Returned /\ cfg.sequence_restriction # <<>>) =>
    \A i \in 1..Len(cfg.mappings) :
      (RenameRule(i) /\ ~ComposesWithEarlierRename(i)) => SameAsRenamedBefore(i)

\* A call with a restriction sequence that holds the source of a pure
\* rename returned a result that is not empty.
C8_Witness ==
  /\ Returned
  /\ \E i \in 1..Len(cfg.mappings) :
       /\ RenameRule(i)
       /\ ~ComposesWithEarlierRename(i)
       /\ \E k \in 1..Len(cfg.sequence_restriction) :
            cfg.sequence_restriction[k] = cfg.mappings[i][1]
  /\ DOMAIN result.formula2mass # {}

\* The number of nt_groups strings that hold a character of the composition
\* of s.
GroupsOf(s) ==
  Cardinality({g \in 1..Len(cfg.nt_groups) :
                 {cfg.nt_groups[g][j] : j \in 1..Len(cfg.nt_groups[g])}
                   \cap {StripModification(s)[i] : i \in 1..Len(StripModification(s))} # {}})

\* C9 as claimed: the composition of every string of the returned result,
\* the label of the fixed adduct included, has characters of at most one of
\* the nt_groups strings.
C9_Original ==
  Returned => \A p \in Pairs(result) : GroupsOf(p[2]) <= 1

\* C9 as amended: the same of every string of the returned result other
\* than the label of the fixed adduct under the adduct's key.
C9_SingleGroup ==
  Returned => \A p \in Pairs(result) : IsAdductEntry(p[1], p[2]) \/ GroupsOf(p[2]) <= 1

\* A call with two groups returned after the filter removed a pair whose
\* composition, of two nucleotides with a cross-linkable one, has
\* characters of both groups, and kept another pair.
C9_Witness ==
  /\ Returned
  /\ Len(cfg.nt_groups) = 2
  /\ \E v \in 1..Len(violates_restriction) :
       /\ GroupsOf(violates_restriction[v][2]) = 2
       /\ Len(StripModification(violates_restriction[v][2])) = 2
       /\ \E i \in 1..2 : StripModification(violates_restriction[v][2])[i] \in cfg.can_xl
       /\ ~Retained(violates_restriction[v])
  /\ \E p \in Pairs(result) : ~IsAdductEntry(p[1], p[2])

AdductKey == FormulaToString(cysteine_adduct_formula)

\* C10: with cysteine_adduct the returned result holds the key of C4H8S2O2
\* in both maps with the label in its ambiguity set, and every other key,
\* mass and ambiguity set is that of the same call without cysteine_adduct;
\* without cysteine_adduct no such entry is added.
C10_AdductIndependent ==
  Returned =>
    LET other == Run([cfg EXCEPT !.cysteine_adduct = FALSE]).result
    IN  IF cfg.cysteine_adduct
        THEN /\ AdductKey \in DOMAIN result.formula2mass
             /\ AdductKey \in DOMAIN result.mod_combinations
             /\ cysteine_adduct_string \in result.mod_combinations[AdductKey]
             /\ (DOMAIN result.formula2mass) \ {AdductKey} = (DOMAIN other.formula2mass) \ {AdductKey}
             /\ (DOMAIN result.mod_combinations) \ {AdductKey}
                  = (DOMAIN other.mod_combinations) \ {AdductKey}
             /\ \A k \in (DOMAIN other.formula2mass) \ {AdductKey} :
                  /\ result.formula2mass[k] = other.formula2mass[k]
                  /\ result.mod_combinations[k] = other.mod_combinations[k]
        ELSE /\ \A p \in Pairs(result) : p[2] # cysteine_adduct_string
             /\ AdductKey \in DOMAIN result.formula2mass
                  => \E i \in 1..Len(all_combinations) :
                       FormulaToString(all_combinations[i]) = AdductKey

\* A call with cysteine_adduct returned the adduct beside entries that
\* passed the filter, after the filter rejected others.
C10_Witness ==
  /\ Returned
  /\ cfg.cysteine_adduct
  /\ Cardinality(DOMAIN result.formula2mass) >= 3
  /\ violates_restriction # <<>>

\* The second character of the modification string is not ':'.
SecondCharacterNotColon(m) == Len(m) >= 2 /\ m[2] # ":"

\* The call is past the loop over the modification strings.
PastModifications ==
  /\ call = "initModificationMassesNA"
  /\ pc \notin {"read_configuration", "auto_restriction", "erase_trivial", "parse_modifications"}

\* C11: a modification string whose second character is not ':' makes the
\* call end with the exception, wherever the string stands in the list: the
\* call never gets past the loop over the modification strings, it returns
\* nothing, and nothing is generated, neither target sequences nor masses
\* nor ambiguity sets. Without such a string the call does not throw.
C11_MalformedAborts ==
  PastModifications =>
    IF \E i \in 1..Len(cfg.modifications) : SecondCharacterNotColon(cfg.modifications[i])
    THEN /\ pc = "thrown"
         /\ result = EmptyResult
         /\ target_sequences = <<>>
         /\ actual_combinations = <<>>
    ELSE pc # "thrown"

\* A call threw on a list whose first string is well-formed and whose
\* second string is not.
C11_Witness ==
  /\ call = "initModificationMassesNA"
  /\ pc = "thrown"
  /\ Len(cfg.modifications) = 2
  /\ ~SecondCharacterNotColon(cfg.modifications[1])
  /\ SecondCharacterNotColon(cfg.modifications[2])

\* Some source symbol has two or more rules in the mapping list.
CombinatorialRule ==
  \E i, j \in 1..Len(cfg.mappings) : i # j /\ cfg.mappings[i][1] = cfg.mappings[j][1]

\* C12: a call without a restriction sequence in which a source symbol has
\* two or more rules has logged the warning "no restriction on sequence but
\* multiple target nucleotides" once it is past the erasure of the trivial
\* rules, and it goes on to return.
C12_WarnsWithoutRestriction ==
  (PastModifications \/ (call = "initModificationMassesNA" /\ pc = "parse_modifications")) =>
    ((cfg.sequence_restriction = <<>> /\ CombinatorialRule)
       => "no restriction on sequence" \in warnings)

\* The chain extension is in a round that does not end: the loop over an
\* ambiguity set inserts into the set it iterates a string that sorts after
\* the one it is at, and so meets every string it inserts.
RoundWithoutEnd == call = "initModificationMassesNA" /\ pc = "diverged"

\* C13: every round of the chain extension ends, also when a chain-extended
\* formula equals the formula it was extended from.
C13_EveryRoundEnds == ~RoundWithoutEnd

\* Every symbol of t is no source of the rule map or is one of its own
\* targets.
SelfConsistent(t) ==
  \A pos \in 1..Len(t) :
    t[pos] \notin DOMAIN map_source_to_targets \/ t[pos] \in Targets(t[pos])

\* C14: a string is appended to target_sequences only if every symbol of it
\* is no source symbol of the rule map or is one of its own targets, also
\* under a rule map that lists a target of a source more than once.
C14_AppendedSelfConsistent ==
  Expanded => \A t \in Appended : SelfConsistent(t)

\* The generation and the chain extension have acted, the filter has not.
BeforeFilter ==
  call = "initModificationMassesNA" /\ pc \in {"extend", "filter", "diverged"}

\* The places of the signs in a nucleotide-style string.
SignsAt(s) == {i \in 1..Len(s) : s[i] \in {"+", "-"}}

\* A nucleotide-style string read as w.m: the word before the first sign and
\* the suffix from the first sign on.
WordOf(s) ==
  IF SignsAt(s) = {} THEN s
  ELSE SubSeq(s, 1, (CHOOSE i \in SignsAt(s) : \A j \in SignsAt(s) : i <= j) - 1)

SuffixOf(s) == SubSeq(s, Len(WordOf(s)) + 1, Len(s))

\* The suffix a modification spec stands for: every sub-formula with its
\* sign, in the order of the spec, the sub-formula in its canonical text.
SuffixOfSpec(nt_mod) ==
  Concat([j \in 1..Len(nt_mod) |->
            <<IF nt_mod[j].subtractive THEN "-" ELSE "+">> \o FormulaToString(nt_mod[j].formula)])

\* The additive minus the subtractive sub-formulas of a modification spec.
RECURSIVE NetChange(_)
NetChange(nt_mod) ==
  IF nt_mod = <<>> THEN EmptyFormula
  ELSE IF Head(nt_mod).subtractive
  THEN FormulaSub(NetChange(Tail(nt_mod)), Head(nt_mod).formula)
  ELSE FormulaAdd(NetChange(Tail(nt_mod)), Head(nt_mod).formula)

\* The sum of the base formulas of the symbols of w.
RECURSIVE BaseSum(_)
BaseSum(w) ==
  IF w = <<>> THEN EmptyFormula
  ELSE FormulaAdd(map_target_to_formula[<<Head(w)>>], BaseSum(Tail(w)))

\* The formula of the chain w with the modification nt_mod at its last
\* symbol: one water is lost at each of the |w| - 1 bonds.
ChainFormula(w, nt_mod) ==
  [e \in Elements |-> BaseSum(w)[e] + NetChange(nt_mod)[e] - (Len(w) - 1) * Water[e]]

\* The string s under the key F is a chain w with one modification spec of
\* its last symbol, and F is the formula of that chain.
HasProvenance(F, s) ==
  LET w == WordOf(s)
  IN  /\ w # <<>>
      /\ \A i \in 1..Len(w) : <<w[i]>> \in DOMAIN map_target_to_formula
      /\ \E k \in 1..Len(cfg.modifications) :
           LET nt_mod == NucleotideModification(cfg.modifications[k])
           IN  /\ cfg.modifications[k][1] = w[Len(w)]
               /\ SuffixOf(s) = SuffixOfSpec(nt_mod)
               /\ F = FormulaToString(ChainFormula(w, nt_mod))

\* C15: before the filter every string stored under a formula key F is a
\* non-empty word w of nucleotide symbols followed by the suffix of one
\* modification spec of the last symbol of w, and F is the sum of the base
\* formulas of w, minus |w| - 1 times water, plus the additive and minus the
\* subtractive sub-formulas of that spec.
C15_Provenance ==
  BeforeFilter => \A p \in Pairs(result) : HasProvenance(p[1], p[2])

\* Before the filter a chain of two symbols with a modified last symbol is
\* stored.
C15_Witness ==
  /\ BeforeFilter
  /\ \E p \in Pairs(result) : Len(WordOf(p[2])) = 2 /\ SuffixOf(p[2]) # <<>>

\* The generated pairs that fail one of the rules 2 to 6 or are a duplicate
\* of an earlier pair.
RejectedPairs(gen, pairs) ==
  {p \in pairs : ~PassesRules2To6(p[2]) \/ DuplicateOfEarlier(gen, pairs, p)}

\* The pair of the fixed adduct, which is added after the filter.
AdductPairs ==
  IF cfg.cysteine_adduct
  THEN {<<FormulaToString(cysteine_adduct_formula), cysteine_adduct_string>>}
  ELSE {}

\* The returned result, the fixed adduct aside, holds the generated pairs
\* that were not rejected; a generated key is in neither map if every string
\* of it was rejected, and in both if not; no key has an empty ambiguity set.
RemovedExactly(gen, pairs, rejected) ==
  /\ Pairs(result) \ AdductPairs = pairs \ rejected
  /\ \A k \in ((DOMAIN gen.formula2mass) \cup (DOMAIN gen.mod_combinations))
                \ {a[1] : a \in AdductPairs} :
       IF \A x \in MapGet(gen.mod_combinations, k, {}) : <<k, x>> \in rejected
       THEN k \notin DOMAIN result.formula2mass /\ k \notin DOMAIN result.mod_combinations
       ELSE k \in DOMAIN result.formula2mass /\ k \in DOMAIN result.mod_combinations
  /\ \A k \in DOMAIN result.mod_combinations : result.mod_combinations[k] # {}

\* C16: the pairs of the returned result, the fixed adduct aside, are the
\* generated pairs that pass the rules 2 to 6 and are no duplicate of an
\* earlier pair; a generated key is in neither map of the result if every
\* string of it was rejected, and in both if not; no key of the result has
\* an empty ambiguity set.
C16_ExactlyRejectedRemoved ==
  Returned =>
    RemovedExactly(Generated, Pairs(Generated), RejectedPairs(Generated, Pairs(Generated)))

\* A pair that passes the rules 2 to 6 was removed as a duplicate beside a
\* kept pair of its key, and a key with strings was removed from both maps.
RemovedDuplicateAndKey(gen, pairs) ==
  /\ \E p \in pairs :
       /\ PassesRules2To6(p[2]) /\ DuplicateOfEarlier(gen, pairs, p) /\ p \notin Pairs(result)
       /\ p[1] \in DOMAIN result.mod_combinations
  /\ \E k \in DOMAIN gen.mod_combinations :
       gen.mod_combinations[k] # {} /\ k \notin DOMAIN result.formula2mass

C16_Witness == Returned /\ RemovedDuplicateAndKey(Generated, Pairs(Generated))

\* The call was given no restriction sequence.
NoRestrictionSupplied == call = "initModificationMassesNA" /\ cfg.sequence_restriction = <<>>

\* The source symbols of the mapping rules.
RuleSources == {cfg.mappings[i][1] : i \in 1..Len(cfg.mappings)}

\* The symbols reachable from the source symbols through the rules: the
\* sources and the targets.
RuleReachable == RuleSources \cup {cfg.mappings[i][4] : i \in 1..Len(cfg.mappings)}

\* The words over the source symbols of length 1..max_length.
SourceWords == SeqsUpTo(RuleSources, cfg.max_length) \ {<<>>}

\* w is a contiguous piece of t.
PieceOf(w, t) == \E l \in 0..(Len(t) - Len(w)) : SubSeq(t, l + 1, l + Len(w)) = w

\* C17: without a restriction sequence supplied, the sequence generated in
\* its place holds only source symbols of the rules and every word of
\* length 1..max_length over them; every composition in the returned result,
\* the fixed adduct aside, holds only symbols reachable from the source
\* symbols through the rules; with no rule either, the one target sequence
\* is the empty string, the containment rule rejects every generated pair,
\* and the returned result holds nothing but the fixed adduct, if asked for.
C17_AutoRestrictionFromSources ==
  NoRestrictionSupplied =>
    /\ pc = "erase_trivial" =>
         /\ \A i \in 1..Len(sequence_restriction) : sequence_restriction[i] \in RuleSources
         /\ \A w \in SourceWords : PieceOf(w, sequence_restriction)
    /\ pc = "done" =>
         \A p \in Pairs(result) \ AdductPairs :
           \A i \in 1..Len(StripModification(p[2])) : StripModification(p[2])[i] \in RuleReachable
    /\ (cfg.mappings = <<>> /\ pc \in {"singles", "extend", "filter", "done"}) =>
         target_sequences = <<<<>>>>
    /\ (cfg.mappings = <<>> /\ pc = "done") =>
         /\ \A p \in Pairs(Generated) : ContainmentViolated(Composition(p[2]), target_sequences)
         /\ Pairs(result) = AdductPairs
         /\ DOMAIN result.formula2mass = {a[1] : a \in AdductPairs}

\* A call without a restriction sequence and with rules returned a
\* composition of two symbols.
C17_Witness ==
  /\ NoRestrictionSupplied /\ pc = "done" /\ cfg.mappings # <<>>
  /\ \E p \in Pairs(result) : Len(StripModification(p[2])) = 2
====
